---- MODULE Spec2Model ----
(***************************************************************************)
(* Model of the autocrop engine of recipe-scan-tool                        *)
(* (notecard_extractor/image_processing.py, main.py, services/             *)
(* image_service.py).  An image is a view (crop rectangle) onto a base     *)
(* picture drawn from a bounded family of synthetic pictures; every        *)
(* autocrop operation maps a view to a view, exactly as PIL's crop does.   *)
(* The services around the engine (PDF extraction, the rotation endpoint,  *)
(* the tag functions) act on the tables recipe_images, dish_images,        *)
(* tag_list and recipe_tags and leave their last call in `call`.           *)
(***************************************************************************)
EXTENDS Integers, Sequences, FiniteSets, TLC

VARIABLES img, rect, op, call, recipe_images, dish_images, tag_list,
          recipe_tags, recipes, uploads

imagevars == <<img, rect, op>>
tables == <<recipe_images, dish_images, tag_list, recipe_tags>>
uploadvars == <<recipes, uploads>>
servicevars ==
    <<call, recipe_images, dish_images, tag_list, recipe_tags, recipes,
      uploads>>
vars == <<img, rect, op, call, recipe_images, dish_images, tag_list,
          recipe_tags, recipes, uploads>>

(***************************************************************************)
(* Program constants.                                                      *)
(***************************************************************************)
padding == 2
SampleBand == 20
MinExclusion == 10
ExclusionDivisor == 20
ColorSamples == 20
LineSamples == 30
ScanCap == 1000
DefaultGrey == 240
WHITE_BORDER_THRESHOLD == 250
GREY_BORDER_TOLERANCE == 60

(***************************************************************************)
(* Bounds of the model.                                                    *)
(***************************************************************************)
MaxMargin == 26

(***************************************************************************)
(* Arithmetic helpers.                                                     *)
(***************************************************************************)
Min(a, b) == IF a <= b THEN a ELSE b
Max(a, b) == IF a >= b THEN a ELSE b

SetMin(S) == CHOOSE x \in S : \A y \in S : x <= y
SetMax(S) == 0 - SetMin({0 - x : x \in S})

\* Python's floor division a // b for b # 0 (the caller handles b = 0).
FloorDiv(a, b) ==
    IF b > 0 THEN a \div b
    ELSE (0 - a) \div (0 - b)

\* int(n * 0.5) for a non-negative int n.
HalfOf(n) == n \div 2

\* The values of Python's range(a, b, s) for s > 0.
RangeLen(a, b, s) == IF b <= a THEN 0 ELSE (b - a + s - 1) \div s
PyRange(a, b, s) == {a + k * s : k \in 0..(RangeLen(a, b, s) - 1)}

(***************************************************************************)
(* Colours and pictures.                                                   *)
(***************************************************************************)
NoColor == <<>>
Grey(v) == <<v, v, v>>
default_color == Grey(DefaultGrey)

\* PIL's convert("L"): ITU-R 601-2 luma in 16-bit fixed point.
Lum(c) == (c[1] * 19595 + c[2] * 38470 + c[3] * 7471 + 32768) \div 65536

\* Variant of DistSq: the blue difference is not squared.
DistSqBlueLinear(a, b) ==
    (a[1] - b[1]) * (a[1] - b[1]) + (a[2] - b[2]) * (a[2] - b[2])
        + (a[3] - b[3])

DistSq(a, b) ==
    (a[1] - b[1]) * (a[1] - b[1]) + (a[2] - b[2]) * (a[2] - b[2])
        + (a[3] - b[3]) * (a[3] - b[3])

\* color_distance(rgb1, rgb2) > tolerance, on the squared distance.
ExceedsTolerance(a, b, tol) == tol < 0 \/ DistSq(a, b) > tol * tol

\* The pixel of a base picture.  The picture has three bands c1/c2/c3 along
\* its band axis (cut at m1 and m2) inside the rows r1..r2-1, colour c1
\* outside them, and one speck of colour sc at (sx, sy).  tr swaps the axes,
\* fl mirrors the band axis.
Pix(p, x, y) ==
    LET a0 == IF p.tr THEN y ELSE x
        b  == IF p.tr THEN x ELSE y
        A  == IF p.tr THEN p.h ELSE p.w
        a  == IF p.fl THEN A - 1 - a0 ELSE a0
    IN  IF a = p.sx /\ b = p.sy THEN p.sc
        ELSE IF b < p.r1 \/ b >= p.r2 THEN p.c1
        ELSE IF a < p.m1 THEN p.c1
        ELSE IF a < p.m2 THEN p.c2
        ELSE p.c3

\* A view: the picture p cropped to the rectangle r (right/bottom exclusive).
View(p, r) == [p |-> p, l |-> r[1], t |-> r[2], r |-> r[3], b |-> r[4]]
Width(v) == v.r - v.l
Height(v) == v.b - v.t
VPix(v, x, y) == Pix(v.p, v.l + x, v.t + y)
FullRect(v) == <<0, 0, Width(v), Height(v)>>

\* image.crop(box) on a view, the box relative to the view.
Crop(v, box) == <<v.l + box[1], v.t + box[2], v.l + box[3], v.t + box[4]>>

(***************************************************************************)
(* autocrop_white_border (image_processing.py 11-60).                      *)
(***************************************************************************)
\* Variant of IsContent: a pixel equal to the threshold counts as content.
IsContentInclusive(lum, threshold) == lum <= threshold

\* A pixel is non-white content when its luminance is below the threshold.
IsContent(lum, threshold) == lum < threshold

ContentCols(v, threshold) ==
    {x \in 0..(Width(v) - 1) :
        \E y \in 0..(Height(v) - 1) : IsContent(Lum(VPix(v, x, y)), threshold)}

ContentRows(v, threshold) ==
    {y \in 0..(Height(v) - 1) :
        \E x \in 0..(Width(v) - 1) : IsContent(Lum(VPix(v, x, y)), threshold)}

\* Variant of WhiteBox: the padded box is not clamped to the image.
WhiteBoxUnclamped(width, height, minx, miny, maxx, maxy) ==
    <<minx - padding, miny - padding, maxx + padding + 1, maxy + padding + 1>>

\* The padded, clamped box around the extreme content coordinates.
WhiteBox(width, height, minx, miny, maxx, maxy) ==
    <<Max(0, minx - padding), Max(0, miny - padding),
      Min(width, maxx + padding + 1), Min(height, maxy + padding + 1)>>

\* The result of an operation: the box it crops its input to (relative to the
\* input), or raised when it ends in an exception and returns nothing.
Result(box, raised, found, line, color, limit) ==
    [box |-> box, raised |-> raised, found |-> found, line |-> line,
     color |-> color, limit |-> limit]

autocrop_white_border(v, threshold) ==
    LET cols == ContentCols(v, threshold)
        rows == ContentRows(v, threshold)
    IN  IF cols = {}
        THEN Result(FullRect(v), FALSE, FALSE, -1, NoColor, 0)
        ELSE Result(WhiteBox(Width(v), Height(v), SetMin(cols), SetMin(rows),
                             SetMax(cols), SetMax(rows)),
                    FALSE, TRUE, -1, NoColor, 0)

(***************************************************************************)
(* autocrop_grey_border (image_processing.py 63-337).                      *)
(***************************************************************************)
\* Columns are scanned for left/right (samples run along y), rows for
\* top/bottom (samples run along x).
LinePix(v, cols, i, j) == IF cols THEN VPix(v, i, j) ELSE VPix(v, j, i)

\* Variant of edge_exclusion: the smaller of the two values.
edge_exclusion_min(extent) == Min(MinExclusion, extent \div ExclusionDivisor)

\* edge_exclusion = max(10, extent // 20) of the orthogonal extent.
edge_exclusion(extent) == Max(MinExclusion, extent \div ExclusionDivisor)
scan_start_of(extent) == edge_exclusion(extent)
scan_end_of(extent) == extent - edge_exclusion(extent)

\* Step of the colour sampler: max(1, span // 20).
ColorStep(span) == Max(1, span \div ColorSamples)

\* The colour sampler visits n lines of k samples each; sample number t
\* (from 0, in the order of the nested loops) lies on line first + t \div k
\* at position start + (t % k) * step.
SamplePix(v, cols, first, start, step, k, t) ==
    LinePix(v, cols, first + t \div k, start + (t % k) * step)

\* Channel sums of the samples lo..hi, halving the range.
RECURSIVE SumSamples(_, _, _, _, _, _, _, _)
SumSamples(v, cols, first, start, step, k, lo, hi) ==
    IF lo > hi THEN <<0, 0, 0>>
    ELSE IF lo = hi THEN SamplePix(v, cols, first, start, step, k, lo)
    ELSE LET mid == (lo + hi) \div 2
             a == SumSamples(v, cols, first, start, step, k, lo, mid)
             b == SumSamples(v, cols, first, start, step, k, mid + 1, hi)
         IN  <<a[1] + b[1], a[2] + b[2], a[3] + b[3]>>

\* int(statistics.mean(vals)): the mean truncated to an integer.
MeanInt(total, count) == total \div count

\* Number of pixels the colour sampler reads on n lines.
SampleCount(n, start, end) == n * RangeLen(start, end, ColorStep(end - start))

\* Mean colour of the lines first..first+n-1 sampled between start and end.
SampledColor(v, cols, first, n, start, end) ==
    LET step == ColorStep(end - start)
        k == RangeLen(start, end, step)
        total == SumSamples(v, cols, first, start, step, k, 0, n * k - 1)
    IN  <<MeanInt(total[1], n * k), MeanInt(total[2], n * k),
          MeanInt(total[3], n * k)>>

\* border_color if border_color else (240, 240, 240)
Fallback(border_color) ==
    IF border_color # NoColor THEN border_color ELSE default_color

\* Variant of sample_width: a 50-column band, as diagnose_border_issue.py
\* samples.
sample_width_wide(width) == Min(SampleBand + 30, width)

sample_width(width) == Min(SampleBand, width)

left_margin_color(v, border_color) ==
    LET s == scan_start_of(Height(v))
        e == scan_end_of(Height(v))
        n == sample_width(Width(v))
    IN  IF SampleCount(n, s, e) > 0
        THEN SampledColor(v, TRUE, 0, n, s, e)
        ELSE Fallback(border_color)

right_margin_color(v, border_color) ==
    LET s == scan_start_of(Height(v))
        e == scan_end_of(Height(v))
        first == Max(0, Width(v) - sample_width(Width(v)))
        n == Width(v) - first
    IN  IF SampleCount(n, s, e) > 0
        THEN SampledColor(v, TRUE, first, n, s, e)
        ELSE IF SampleCount(sample_width(Width(v)), s, e) > 0
             THEN left_margin_color(v, border_color)
             ELSE Fallback(border_color)

top_margin_color(v, border_color) ==
    LET s == scan_start_of(Width(v))
        e == scan_end_of(Width(v))
        n == Min(SampleBand, Height(v))
    IN  IF SampleCount(n, s, e) > 0
        THEN SampledColor(v, FALSE, 0, n, s, e)
        ELSE Fallback(border_color)

bottom_margin_color(v, border_color) ==
    LET s == scan_start_of(Width(v))
        e == scan_end_of(Width(v))
        first == Max(0, Height(v) - Min(SampleBand, Height(v)))
        n == Height(v) - first
    IN  IF SampleCount(n, s, e) > 0
        THEN SampledColor(v, FALSE, first, n, s, e)
        ELSE Fallback(border_color)

\* sample_size = min(30, span); step = max(1, span // sample_size).
\* The division raises ZeroDivisionError when the span is exactly 0.
StepRaises(span) == Min(LineSamples, span) = 0
ScanStep(span) == Max(1, FloorDiv(span, Min(LineSamples, span)))
SamplePoints(start, end) == PyRange(start, end, ScanStep(end - start))

\* The inner loop: all_margin becomes False on the first sample farther
\* than tolerance from the margin colour.
LineHasContent(v, cols, i, start, end, color, tolerance) ==
    \E j \in SamplePoints(start, end) :
        ExceedsTolerance(LinePix(v, cols, i, j), color, tolerance)

\* Variants of scan_limit_left and scan_limit_right: the scan may cross the
\* whole extent.
scan_limit_whole(extent) == Min(extent, ScanCap)
scan_limit_right_whole(extent) == extent

\* Number of lines the scan may visit from the edge.
scan_limit_left(extent) == Min(HalfOf(extent), ScanCap)
scan_limit_right(extent) == HalfOf(extent)

\* NotFoundLowAtLimit is the variant of NotFoundLow that takes the scan limit
\* as the boundary.
\* The boundary when no line of the scan is classified as content: the
\* initial value (left = 0, top = 0; right = width, bottom = height).
NotFoundLowAtLimit(limit) == limit
NotFoundLow(limit) == 0
NotFoundHigh(extent, limit) == extent

\* LowBoundaryAdded and LowBoundaryUnclamped are variants of LowBoundary: the
\* padding added instead of subtracted, and the clamp at 0 left out.
\* HighBoundarySubtracted and HighBoundaryTight are the variants of
\* HighBoundary with the padding subtracted and left out.
\* Boundary after padding, for a scan from the low edge and from the high
\* edge (first is the first content line, or the initial value).
LowBoundaryAdded(first) == Max(0, first + padding)
LowBoundaryUnclamped(first) == first - padding
LowBoundary(first) == Max(0, first - padding)
HighBoundarySubtracted(extent, first) == Min(extent, first - padding)
HighBoundaryTight(extent, first) == Min(extent, first)
HighBoundary(extent, first) == Min(extent, first + padding)

\* Variants of LowBox and HighBox: the opposite edge is moved as well.
LowBoxMirrored(cols, edge, w, h) ==
    IF cols THEN <<edge, 0, w - edge, h>> ELSE <<0, edge, w, h - edge>>
HighBoxMirrored(cols, edge, w, h) ==
    IF cols THEN <<w - edge, 0, edge, h>> ELSE <<0, h - edge, w, edge>>

\* The crop box of a pass: only the scanned edge is moved (lines 187, 278
\* for left and top, 223, 334 for right and bottom).
LowBox(cols, edge, w, h) ==
    IF cols THEN <<edge, 0, w, h>> ELSE <<0, edge, w, h>>
HighBox(cols, edge, w, h) ==
    IF cols THEN <<0, 0, edge, h>> ELSE <<0, 0, w, edge>>

\* Scan from the low edge (left, top): lines 0..limit-1 in rising order.
LowScan(v, cols, extent, start, end, color, tolerance) ==
    LET limit == scan_limit_left(extent)
        hits == {i \in 0..(limit - 1) :
                    LineHasContent(v, cols, i, start, end, color, tolerance)}
    IN  IF limit >= 1 /\ StepRaises(end - start)
        THEN Result(FullRect(v), TRUE, FALSE, -1, color, limit)
        ELSE LET first == IF hits = {} THEN NotFoundLow(limit)
                          ELSE SetMin(hits)
                 edge == LowBoundary(first)
             IN  Result(LowBox(cols, edge, Width(v), Height(v)),
                        FALSE, hits # {},
                        IF hits = {} THEN -1 ELSE first, color, limit)

\* Scan from the high edge (right, bottom): lines extent-1 down to
\* extent - limit.
HighScan(v, cols, extent, start, end, color, tolerance) ==
    LET limit == scan_limit_right(extent)
        scan_start == extent - limit
        hits == {i \in scan_start..(extent - 1) :
                    LineHasContent(v, cols, i, start, end, color, tolerance)}
    IN  IF limit >= 1 /\ StepRaises(end - start)
        THEN Result(FullRect(v), TRUE, FALSE, -1, color, limit)
        ELSE LET first == IF hits = {} THEN NotFoundHigh(extent, limit)
                          ELSE SetMax(hits) + 1
                 edge == HighBoundary(extent, first)
             IN  Result(HighBox(cols, edge, Width(v), Height(v)),
                        FALSE, hits # {},
                        IF hits = {} THEN -1 ELSE first - 1, color, limit)

Sides == {"left", "right", "top", "bottom"}

\* A string argument is its sequence of character codes; Spelling gives the
\* codes of the four literals the code compares with.
Spelling(name) ==
    CASE name = "left" -> <<108, 101, 102, 116>>
      [] name = "right" -> <<114, 105, 103, 104, 116>>
      [] name = "top" -> <<116, 111, 112>>
      [] name = "bottom" -> <<98, 111, 116, 116, 111, 109>>
      [] OTHER -> <<>>

\* Variant of str_lower: the string is left as it is.
str_as_given(chars) == chars

\* sides.lower(): the letters A-Z are mapped to a-z.
str_lower(chars) ==
    [i \in 1..Len(chars) |->
        IF chars[i] >= 65 /\ chars[i] <= 90 THEN chars[i] + 32 ELSE chars[i]]

\* The literal that `side` equals after lowering, "invalid" when none.
SideName(sides) ==
    LET side == str_lower(sides)
    IN  IF \E n \in Sides : side = Spelling(n)
        THEN CHOOSE n \in Sides : side = Spelling(n)
        ELSE "invalid"

autocrop_grey_border(v, border_color, tolerance, sides) ==
    LET w == Width(v)
        h == Height(v)
        side == SideName(sides)
    IN  IF side = "left"
        THEN LowScan(v, TRUE, w, scan_start_of(h), scan_end_of(h),
                     left_margin_color(v, border_color), tolerance)
        ELSE IF side = "right"
        THEN HighScan(v, TRUE, w, scan_start_of(h), scan_end_of(h),
                      right_margin_color(v, border_color), tolerance)
        ELSE IF side = "top"
        THEN LowScan(v, FALSE, h, scan_start_of(w), scan_end_of(w),
                     top_margin_color(v, border_color), tolerance)
        ELSE IF side = "bottom"
        THEN HighScan(v, FALSE, h, scan_start_of(w), scan_end_of(w),
                      bottom_margin_color(v, border_color), tolerance)
        ELSE Result(FullRect(v), FALSE, FALSE, -1, NoColor, 0)

(***************************************************************************)
(* autocrop_grey_border of main.py (163-307): both sides in one call, with *)
(* the "too narrow" guard.                                                 *)
(***************************************************************************)
\* scan_start = max(left + int(width * 0.1), int(width * 0.5))
main_scan_start(width, left) == Max(left + width \div 10, HalfOf(width))

\* left >= right or right - left < width * 0.1
TooNarrow(width, left, right) == left >= right \/ 10 * (right - left) < width

main_autocrop_grey_border(v, border_color, tolerance) ==
    LET w == Width(v)
        h == Height(v)
        s == scan_start_of(h)
        e == scan_end_of(h)
        lcolor == left_margin_color(v, border_color)
        rcolor == right_margin_color(v, border_color)
        limit == scan_limit_left(w)
        lhits == {x \in 0..(limit - 1) :
                    LineHasContent(v, TRUE, x, s, e, lcolor, tolerance)}
        left == IF lhits = {} THEN NotFoundLow(limit) ELSE SetMin(lhits)
        start == main_scan_start(w, left)
        rhits == {x \in start..(w - 1) :
                    LineHasContent(v, TRUE, x, s, e, rcolor, tolerance)}
        right == IF rhits = {} THEN NotFoundHigh(w, w - start)
                 ELSE SetMax(rhits) + 1
    IN  IF limit >= 1 /\ StepRaises(e - s)
        THEN Result(FullRect(v), TRUE, FALSE, -1, lcolor, limit)
        ELSE IF start <= w - 1 /\ StepRaises(e - s)
        THEN Result(FullRect(v), TRUE, FALSE, -1, rcolor, limit)
        ELSE IF TooNarrow(w, left, right)
        THEN Result(FullRect(v), FALSE, FALSE, -1, lcolor, limit)
        ELSE Result(<<LowBoundary(left), 0, HighBoundary(w, right), h>>,
                    FALSE, lhits # {} \/ rhits # {},
                    IF lhits = {} THEN -1 ELSE left, lcolor, limit)

(***************************************************************************)
(* process_image_pipeline (services/image_service.py 39-51) and the same   *)
(* three calls in process_pdf_images (services/pdf_service.py 50-62):      *)
(* white bounding box, then the left grey margin, then the right grey      *)
(* margin.  stages lists, for each stage that ran, its name, the rectangle *)
(* (in picture coordinates) it was given and the one it returned, and what *)
(* its scan found.                                                         *)
(***************************************************************************)
Stage(name, in, out, res) ==
    [name |-> name, in |-> in, out |-> IF res.raised THEN in ELSE out,
     raised |-> res.raised, found |-> res.found, line |-> res.line,
     color |-> res.color]

Outcome(r, stages) ==
    [rect |-> IF stages[Len(stages)].raised THEN r
              ELSE stages[Len(stages)].out,
     raised |-> stages[Len(stages)].raised, stages |-> stages]

\* Variant of process_image_pipeline: the right margin before the left one.
pipeline_right_first(p, r) ==
    LET v0 == View(p, r)
        white == autocrop_white_border(v0, WHITE_BORDER_THRESHOLD)
        r1 == Crop(v0, white.box)
        v1 == View(p, r1)
        right == autocrop_grey_border(v1, NoColor, GREY_BORDER_TOLERANCE,
                                      Spelling("right"))
        r2 == Crop(v1, right.box)
        v2 == View(p, r2)
        left == autocrop_grey_border(v2, NoColor, GREY_BORDER_TOLERANCE,
                                     Spelling("left"))
        r3 == Crop(v2, left.box)
        s1 == Stage("white", r, r1, white)
        s2 == Stage("right", r1, r2, right)
        s3 == Stage("left", r2, r3, left)
    IN  IF right.raised THEN Outcome(r, <<s1, s2>>)
        ELSE Outcome(r, <<s1, s2, s3>>)

process_image_pipeline(p, r) ==
    LET v0 == View(p, r)
        white == autocrop_white_border(v0, WHITE_BORDER_THRESHOLD)
        r1 == Crop(v0, white.box)
        v1 == View(p, r1)
        left == autocrop_grey_border(v1, NoColor, GREY_BORDER_TOLERANCE,
                                     Spelling("left"))
        r2 == Crop(v1, left.box)
        v2 == View(p, r2)
        right == autocrop_grey_border(v2, NoColor, GREY_BORDER_TOLERANCE,
                                      Spelling("right"))
        r3 == Crop(v2, right.box)
        s1 == Stage("white", r, r1, white)
        s2 == Stage("left", r1, r2, left)
        s3 == Stage("right", r2, r3, right)
    IN  IF left.raised THEN Outcome(r, <<s1, s2>>)
        ELSE Outcome(r, <<s1, s2, s3>>)

\* The box of rectangle out relative to rectangle in.
Relative(in, out) ==
    <<out[1] - in[1], out[2] - in[2], out[3] - in[1], out[4] - in[2]>>

(***************************************************************************)
(* The pictures the operations are run on.                                 *)
(***************************************************************************)
White == Grey(255)
Paper == Grey(235)
Ink == Grey(30)

Picture(w, h, m1, m2, c1, c2, c3, r1, r2, sx, sy, sc, tr, fl) ==
    [w |-> w, h |-> h, m1 |-> m1, m2 |-> m2, c1 |-> c1, c2 |-> c2, c3 |-> c3,
     r1 |-> r1, r2 |-> r2, sx |-> sx, sy |-> sy, sc |-> sc, tr |-> tr,
     fl |-> fl]

\* Bands of extent A along the band axis and B across it, no speck.
Bands(A, B, m1, m2, c1, c2, c3, tr, fl) ==
    Picture(IF tr THEN B ELSE A, IF tr THEN A ELSE B, m1, m2, c1, c2, c3,
            0, B, -1, -1, c1, tr, fl)

\* A margin of m lines of one colour, then content of another; the scan
\* limit of these pictures is 24 lines.
MarginWidths == (0..3) \cup (20..MaxMargin)

MarginPictures ==
    {Bands(48, 21, m, 48, Paper, Ink, Ink, tr, fl) :
        m \in MarginWidths, tr \in BOOLEAN, fl \in BOOLEAN}
    \cup {Bands(48, 21, m, 48, Grey(200), Grey(170), Grey(170), FALSE, FALSE) :
        m \in {3, 20}}
    \cup {Bands(48, 15, m, 48, Paper, Ink, Ink, tr, FALSE) :
        m \in {0, 21}, tr \in BOOLEAN}

\* A margin, a band close to the margin colour, then dark content.
ThreeBandPictures ==
    {Bands(100, 21, 30, 48, Grey(200), Grey(165), Ink, tr, fl) :
        tr \in BOOLEAN, fl \in BOOLEAN}

\* A uniform page with one dark speck; 30 samples are taken per line.
SpeckPictures ==
    {Picture(IF tr THEN 50 ELSE 44, IF tr THEN 44 ELSE 50, 44, 44,
             Paper, Paper, Paper, 0, 50, sx, sy, Ink, tr, fl) :
        sx \in {0, 5}, sy \in {5, 10, 39}, tr \in BOOLEAN, fl \in BOOLEAN}

\* White canvases with a block or a single pixel of content.
WhitePictures ==
    {Picture(24, 24, m1, m2, White, c2, White, r1, r2, -1, -1, White,
             FALSE, FALSE) :
        m1 \in {0, 3}, m2 \in {4, 24}, r1 \in {0, 5}, r2 \in {6, 21},
        c2 \in {Ink, Grey(250)}}
    \cup {Picture(24, 24, 3, 4, White, Grey(249), White, 5, 6, -1, -1, White,
                  FALSE, FALSE)}
    \cup {Picture(24, 24, 24, 24, White, White, White, 0, 24, s[1], s[2],
                  Grey(0), FALSE, FALSE) :
            s \in {<<10, 10>>, <<0, 0>>, <<23, 23>>, <<1, 22>>}}

\* Small and zero-sized pictures.
SmallSizes ==
    {<<1, 1>>, <<2, 21>>, <<3, 25>>, <<5, 3>>, <<40, 20>>, <<20, 40>>,
     <<19, 45>>, <<45, 19>>, <<2, 20>>, <<1, 20>>, <<20, 1>>}
ZeroSizes == {<<0, 0>>, <<0, 30>>, <<30, 0>>}

SmallPictures ==
    {Picture(d[1], d[2], m, d[1], Paper, Ink, Ink, 0, d[2], -1, -1, Paper,
             FALSE, FALSE) : d \in SmallSizes, m \in {0, 1}}
    \cup {Picture(d[1], d[2], 0, 0, Paper, Paper, Paper, 0, d[2], -1, -1,
                  Paper, FALSE, FALSE) : d \in ZeroSizes}

\* The 600x400 page with an 80-column margin, and smaller pages with a
\* margin of at least the 20-column colour-sample band, of several heights.
ScenarioPictures ==
    {Bands(600, 400, 80, 600, Paper, Ink, Ink, FALSE, FALSE)}
    \cup {Bands(w, h, m, w, c[1], c[2], c[2], FALSE, FALSE) :
            w \in {48, 64}, h \in {15, 19, 20, 21, 40}, m \in 20..MaxMargin,
            c \in {<<Paper, Ink>>, <<Ink, Paper>>, <<Grey(200), Grey(170)>>}}

\* Pages for the pipeline: a white border around a grey margin and dark
\* content (and its mirror image), and a grey margin on both sides.
PipelinePictures ==
    {Picture(60, 40, 4, 26, White, Paper, Ink, 4, 36, -1, -1, White, FALSE, fl) :
        fl \in BOOLEAN}
    \cup {Bands(80, h, m, 80 - m, Paper, Ink, Paper, FALSE, FALSE) :
            h \in {21, 30}, m \in {3, 22}}

Pictures ==
    MarginPictures \cup ThreeBandPictures \cup SpeckPictures
        \cup WhitePictures \cup SmallPictures

Thresholds == {WHITE_BORDER_THRESHOLD, 128}
Tolerances == {GREY_BORDER_TOLERANCE, 0}

\* Arguments (border_color, tolerance, sides) of autocrop_grey_border.
GreyArgs ==
    {<<NoColor, tol, Spelling(side)>> : tol \in Tolerances, side \in Sides}
        \cup {<<Paper, GREY_BORDER_TOLERANCE, Spelling(side)>> :
                side \in {"left", "top"}}

(***************************************************************************)
(* The tables before any request.  Recipe 1 has the images of its pages 0  *)
(* and 1 and one dish image, recipe 2 has no image; every rotation is the  *)
(* default 0 (database.py 86, 120; recipes.py 124).  No tag exists.        *)
(***************************************************************************)
ExistingRecipes == {1, 2}
RecipeImageRow(recipe_id, pdf_page_number, rotation) ==
    [recipe_id |-> recipe_id, pdf_page_number |-> pdf_page_number,
     rotation |-> rotation]
DishImageRow(recipe_id, image_number, rotation) ==
    [recipe_id |-> recipe_id, image_number |-> image_number,
     rotation |-> rotation]
InitialRecipeImages == {RecipeImageRow(1, 0, 0), RecipeImageRow(1, 1, 0)}
InitialDishImages == {DishImageRow(1, 1, 0)}

NoCall == [name |-> "none"]

\* The Recipe rows (id and hash of the PDF), and a request thread of the
\* upload endpoint that serves no request.
RecipeRow(id, sha) == [id |-> id, original_pdf_sha256 |-> sha]
InitialRecipes == {RecipeRow(1, "x"), RecipeRow(2, "y")}
NoUpload ==
    [pc |-> "idle", file |-> "", known |-> FALSE, recipe_id |-> 0,
     status |-> ""]

ServicesIdle ==
    /\ call = NoCall
    /\ recipe_images = InitialRecipeImages
    /\ dish_images = InitialDishImages
    /\ tag_list = {}
    /\ recipe_tags = {}
    /\ recipes = InitialRecipes
    /\ uploads = [r \in {1, 2} |-> NoUpload]

(***************************************************************************)
(* The state machine.  rect is the caller's current image (a rectangle of  *)
(* the picture img).  A call computes its result from the current image    *)
(* and leaves it in op; Assign is the caller's `image = f(image)`, which   *)
(* takes the returned image as the current one (nothing is assigned when   *)
(* the call raised); GreyAgain calls autocrop_grey_border a second time,   *)
(* with the same arguments, on the image the first call returned.          *)
(***************************************************************************)
Op(name, side, sides, tolerance, threshold, border_color, input, res, stages, again) ==
    [name |-> name, side |-> side, sides |-> sides, tolerance |-> tolerance,
     threshold |-> threshold, border_color |-> border_color,
     input |-> input, res |-> res, stages |-> stages, again |-> again]

NoResult == Result(<<0, 0, 0, 0>>, FALSE, FALSE, -1, NoColor, 0)
Idle == Op("idle", "", <<>>, 0, 0, NoColor, <<0, 0, 0, 0>>, NoResult, <<>>, FALSE)

InitOn(pictures) ==
    /\ img \in pictures
    /\ rect = <<0, 0, img.w, img.h>>
    /\ op = Idle
    /\ ServicesIdle

Init == InitOn(Pictures)

WhitePass(threshold) ==
    /\ op.name = "idle"
    /\ \E res \in {autocrop_white_border(View(img, rect), threshold)} :
        op' = Op("white", "", <<>>, 0, threshold, NoColor, rect, res, <<>>, FALSE)
    /\ UNCHANGED <<img, rect>>
    /\ UNCHANGED servicevars

GreyPass(border_color, tolerance, sides) ==
    /\ op.name = "idle"
    /\ \E res \in {autocrop_grey_border(View(img, rect), border_color,
                                        tolerance, sides)} :
        op' = Op("grey", SideName(sides), sides, tolerance, 0, border_color,
                 rect, res, <<>>, FALSE)
    /\ UNCHANGED <<img, rect>>
    /\ UNCHANGED servicevars

MainGreyPass(tolerance) ==
    /\ op.name = "idle"
    /\ \E res \in {main_autocrop_grey_border(View(img, rect), NoColor,
                                             tolerance)} :
        op' = Op("maingrey", "", <<>>, tolerance, 0, NoColor, rect, res, <<>>,
                 FALSE)
    /\ UNCHANGED <<img, rect>>
    /\ UNCHANGED servicevars

Pipeline ==
    /\ op.name = "idle"
    /\ \E out \in {process_image_pipeline(img, rect)} :
        op' = Op("pipeline", "", <<>>, GREY_BORDER_TOLERANCE,
                 WHITE_BORDER_THRESHOLD, NoColor, rect,
                 Result(Relative(rect, out.rect), out.raised, FALSE, -1,
                        NoColor, 0),
                 out.stages, FALSE)
    /\ UNCHANGED <<img, rect>>
    /\ UNCHANGED servicevars

\* grey_border_remover (border_removers.py 204-240) on one image file: the
\* call of line 224 passes no `sides`, so the default of
\* autocrop_grey_border (image_processing.py 67) applies; an exception is
\* caught at line 240 and no file is saved.
DefaultSides == Spelling("left")

GreyBorderRemover(border_color, tolerance) ==
    /\ op.name = "idle"
    /\ \E res \in {autocrop_grey_border(View(img, rect), border_color,
                                        tolerance, DefaultSides)} :
        op' = Op("remover", SideName(DefaultSides), DefaultSides, tolerance,
                 0, border_color, rect, res, <<>>, FALSE)
    /\ UNCHANGED <<img, rect>>
    /\ UNCHANGED servicevars

\* The image a returned call hands back, in picture coordinates.
Returned == Crop(View(img, op.input), op.res.box)

Assign ==
    /\ op.name # "idle"
    /\ rect' = IF op.res.raised THEN rect ELSE Returned
    /\ op' = Idle
    /\ UNCHANGED img
    /\ UNCHANGED servicevars

GreyAgain ==
    /\ op.name = "grey"
    /\ ~op.res.raised
    /\ \E res \in {autocrop_grey_border(View(img, Returned), op.border_color,
                                        op.tolerance, op.sides)} :
        /\ op' = Op("grey", op.side, op.sides, op.tolerance, 0,
                    op.border_color,
                    Returned, res, <<>>, TRUE)
    /\ rect' = Returned
    /\ UNCHANGED img
    /\ UNCHANGED servicevars

Next ==
    \/ \E th \in Thresholds : WhitePass(th)
    \/ \E a \in GreyArgs : GreyPass(a[1], a[2], a[3])
    \/ \E tol \in Tolerances : MainGreyPass(tol)
    \/ Pipeline
    \/ Assign
    \/ GreyAgain

Spec == Init /\ [][Next]_vars

\* The left-margin pass alone, on the scenario pictures.
InitMargin == InitOn(ScenarioPictures)

NextMargin ==
    \/ \E bc \in {NoColor, Paper}, tol \in Tolerances :
            GreyPass(bc, tol, Spelling("left"))
    \/ Assign

SpecMargin == InitMargin /\ [][NextMargin]_vars

\* The pipeline and the grey_border_remover command.
InitPipeline ==
    InitOn(PipelinePictures \cup MarginPictures \cup SmallPictures)

NextPipeline ==
    \/ Pipeline
    \/ \E bc \in {NoColor, Paper}, tol \in Tolerances :
            GreyBorderRemover(bc, tol)
    \/ Assign

SpecPipeline == InitPipeline /\ [][NextPipeline]_vars

\* autocrop_grey_border under several spellings of `sides`.
SideSpellings ==
    {Spelling(n) : n \in Sides}
        \cup {<<76, 69, 70, 84>>, <<84, 111, 112>>, <<82, 105, 103, 72, 116>>,
              <<98, 111, 116, 104>>, <<108, 101, 102, 116, 32>>, <<>>}

InitSides == InitOn(MarginPictures \cup SmallPictures)

NextSides ==
    \/ \E sides \in SideSpellings :
            GreyPass(NoColor, GREY_BORDER_TOLERANCE, sides)
    \/ Assign

SpecSides == InitSides /\ [][NextSides]_vars

\* Pages wider (or, transposed, higher) than twice the 1000-line cap, with
\* a margin that ends before or after the cap, at either edge, and pages
\* whose orthogonal extent is above 200, where the excluded band is 5% of
\* it; and the four passes with the default arguments on them.
WidePictures ==
    {Bands(A, 21, m, A, Paper, Ink, Ink, tr, fl) :
        A \in {2004, 2400}, m \in {0, 900, 1100}, tr \in BOOLEAN,
        fl \in BOOLEAN}
    \cup {Bands(60, 240, m, 60, Paper, Ink, Ink, tr, fl) :
            m \in {0, 22}, tr \in BOOLEAN, fl \in BOOLEAN}

InitWide == InitOn(WidePictures)

NextWide ==
    \/ \E side \in Sides :
            GreyPass(NoColor, GREY_BORDER_TOLERANCE, Spelling(side))
    \/ Assign

SpecWide == InitWide /\ [][NextWide]_vars

(***************************************************************************)
(* color_distance (image_processing.py 93-96), called on its own.          *)
(***************************************************************************)
\* The engine at rest, for the specifications of the services.
EngineIdle ==
    /\ img = Picture(1, 1, 1, 1, White, White, White, 0, 1, -1, -1, White,
                     FALSE, FALSE)
    /\ rect = <<0, 0, 1, 1>>
    /\ op = Idle

ChannelLevels == {0, 100, 255}
Colors == {<<r, g, b>> : r \in ChannelLevels, g \in ChannelLevels,
                         b \in ChannelLevels}

\* The squared distance in both orders and the verdict `distance >
\* tolerance` (lines 171-172) in both orders.
ColorDistance(a, b, tolerance) ==
    /\ call' = [name |-> "color_distance", a |-> a, b |-> b,
                tolerance |-> tolerance,
                ab |-> DistSq(a, b), ba |-> DistSq(b, a),
                aa |-> DistSq(a, a),
                exceeds_ab |-> ExceedsTolerance(a, b, tolerance),
                exceeds_ba |-> ExceedsTolerance(b, a, tolerance)]
    /\ UNCHANGED tables
    /\ UNCHANGED imagevars
    /\ UNCHANGED uploadvars

InitDistance == EngineIdle /\ ServicesIdle

NextDistance ==
    \E a \in Colors, b \in Colors, tol \in Tolerances :
        ColorDistance(a, b, tol)

SpecDistance == InitDistance /\ [][NextDistance]_vars

(***************************************************************************)
(* process_pdf_images (services/pdf_service.py 26-95) and the older        *)
(* extract_and_process_image_from_pdf (web_gui.py 61-163).  A PDF is the   *)
(* sequence of its pages, a page the sequence of its embedded images; an   *)
(* embedded image is either one PIL cannot open or a picture.              *)
(***************************************************************************)
MaxPages == 2

BrokenImage == [kind |-> "broken"]
Embedded(p) == [kind |-> "picture", p |-> p]
\* A 3x25 picture, which the three crops process, and a 2x20 one, on which
\* the left grey pass raises.
GoodImage == Embedded(Bands(3, 25, 1, 3, Paper, Ink, Ink, FALSE, FALSE))
RaisingImage == Embedded(Bands(2, 20, 1, 2, Paper, Ink, Ink, FALSE, FALSE))

PageKinds ==
    {<<>>, <<BrokenImage>>, <<RaisingImage>>, <<GoodImage>>,
     <<BrokenImage, GoodImage>>, <<RaisingImage, GoodImage>>,
     <<GoodImage, RaisingImage>>, <<BrokenImage, RaisingImage>>}

Pdfs == UNION {[1..n -> PageKinds] : n \in 0..MaxPages}

\* Image.open succeeds.
Opens(image) == image.kind = "picture"

\* The white, left and right crops of one embedded picture.
Processed(image) ==
    process_image_pipeline(image.p, <<0, 0, image.p.w, image.p.h>>)

\* What becomes of one embedded image: whether Image.open succeeds and, if
\* so, what the crops give.  The crops are a pure function of the image, so
\* the outcome of every image of the document is taken before the loops.
ImageOutcome(image) ==
    IF ~Opens(image)
    THEN [opens |-> FALSE, raised |-> FALSE, rect |-> <<0, 0, 0, 0>>]
    ELSE CHOOSE outcome \in
            {[opens |-> TRUE, raised |-> out.raised, rect |-> out.rect] :
                out \in {Processed(image)}} : TRUE

Outcomes(pages) ==
    [i \in 1..Len(pages) |->
        [k \in 1..Len(pages[i]) |-> ImageOutcome(pages[i][k])]]

PageResult(page_num, out) == [page_num |-> page_num, rect |-> out.rect]

\* extract_images_from_pdf_page (utils/pdf_utils.py 13-37): the index of
\* the first image of the page that opens, 0 when there is none.
FirstOpening(page) ==
    LET opening == {k \in 1..Len(page) : page[k].opens}
    IN  IF opening = {} THEN 0 ELSE SetMin(opening)

\* The page loop of process_pdf_images from page index i on: a page
\* without image and a page whose image fails are passed over (`continue`,
\* lines 47 and 89); after the first appended result the `break` of line
\* 85 leaves the page loop.
RECURSIVE PdfPageLoop(_, _)
PdfPageLoop(outcomes, i) ==
    IF i > Len(outcomes) THEN <<>>
    ELSE LET k == FirstOpening(outcomes[i])
         IN  IF k = 0 \/ outcomes[i][k].raised
             THEN PdfPageLoop(outcomes, i + 1)
             ELSE <<PageResult(i - 1, outcomes[i][k])>>

process_pdf_images(outcomes) == PdfPageLoop(outcomes, 1)

\* The image loop of extract_and_process_image_from_pdf on one page: an
\* image that fails is passed over (line 157), the `break` of line 153
\* leaves the image loop after the first result.
RECURSIVE GuiImageLoop(_, _, _)
GuiImageLoop(page, page_num, k) ==
    IF k > Len(page) THEN <<>>
    ELSE IF ~page[k].opens \/ page[k].raised
         THEN GuiImageLoop(page, page_num, k + 1)
         ELSE <<PageResult(page_num, page[k])>>

RECURSIVE GuiPageLoop(_, _)
GuiPageLoop(outcomes, i) ==
    IF i > Len(outcomes) THEN <<>>
    ELSE GuiImageLoop(outcomes[i], i - 1, 1) \o GuiPageLoop(outcomes, i + 1)

extract_and_process_image_from_pdf(outcomes) == GuiPageLoop(outcomes, 1)

ProcessPdfImages(pages) ==
    /\ \E outcomes \in {Outcomes(pages)} :
       \E results \in {process_pdf_images(outcomes)} :
        call' = [name |-> "process_pdf_images", pages |-> pages,
                 results |-> results]
    /\ UNCHANGED tables
    /\ UNCHANGED imagevars
    /\ UNCHANGED uploadvars

ExtractAndProcess(pages) ==
    /\ \E outcomes \in {Outcomes(pages)} :
       \E results \in {extract_and_process_image_from_pdf(outcomes)} :
        call' = [name |-> "extract_and_process_image_from_pdf",
                 pages |-> pages, results |-> results]
    /\ UNCHANGED tables
    /\ UNCHANGED imagevars
    /\ UNCHANGED uploadvars

InitPdf == EngineIdle /\ ServicesIdle

NextPdf ==
    \/ \E pages \in Pdfs : call.name = "none" /\ ProcessPdfImages(pages)
    \/ \E pages \in Pdfs : call.name = "none" /\ ExtractAndProcess(pages)

SpecPdf == InitPdf /\ [][NextPdf]_vars

(***************************************************************************)
(* handle_update_recipe_rotation (api/handlers/recipes.py 225-290; the     *)
(* same steps in web_gui.py 886-961).  A JSON value is a number (kept in   *)
(* tenths, so that 90.5 can be sent), a string (its character codes) or    *)
(* null; an optional field is the empty set or a one-element set.          *)
(***************************************************************************)
JsonNumber(tenths) == [t |-> "number", tenths |-> tenths, chars |-> <<>>]
JsonInt(n) == JsonNumber(10 * n)
JsonString(chars) == [t |-> "string", tenths |-> 0, chars |-> chars]
JsonNull == [t |-> "null", tenths |-> 0, chars |-> <<>>]

IsDigit(c) == c >= 48 /\ c <= 57

RECURSIVE DecimalValue(_, _)
DecimalValue(chars, k) ==
    IF k = 0 THEN 0 ELSE 10 * DecimalValue(chars, k - 1) + (chars[k] - 48)

\* int(value) of line 236: a number is truncated toward zero, a string of
\* digits is read as a decimal, any other string raises ValueError and null
\* raises TypeError.  (Strings with sign, blanks or underscores are not
\* among the values sent.)
py_int(value) ==
    IF value.t = "number"
    THEN [ok |-> TRUE,
          n |-> IF value.tenths >= 0 THEN value.tenths \div 10
                ELSE 0 - ((0 - value.tenths) \div 10)]
    ELSE IF value.t = "string" /\ Len(value.chars) > 0
            /\ \A i \in 1..Len(value.chars) : IsDigit(value.chars[i])
    THEN [ok |-> TRUE, n |-> DecimalValue(value.chars, Len(value.chars))]
    ELSE [ok |-> FALSE, n |-> 0]

\* rotation in [0, 90, 180, 270] (line 237).
RotationAllowed(rotation) == rotation \in {0, 90, 180, 270}

RotationRequest(has_rotation, rotation, image_type, page_number, dish_number) ==
    [has_rotation |-> has_rotation, rotation |-> rotation,
     image_type |-> image_type, page_number |-> page_number,
     dish_number |-> dish_number]

\* The row the request addresses (lines 251-284): kind "page" or "dish" and
\* its number; anything but a page or a dish with a number is page 0.
Target(data) ==
    IF data.image_type = "page" /\ data.page_number # {}
    THEN [kind |-> "page", number |-> CHOOSE n \in data.page_number : TRUE]
    ELSE IF data.image_type = "dish" /\ data.dish_number # {}
    THEN [kind |-> "dish", number |-> CHOOSE n \in data.dish_number : TRUE]
    ELSE [kind |-> "page", number |-> 0]

TargetRows(recipe_id, target) ==
    IF target.kind = "page"
    THEN {row \in recipe_images : row.recipe_id = recipe_id
                                  /\ row.pdf_page_number = target.number}
    ELSE {row \in dish_images : row.recipe_id = recipe_id
                                /\ row.image_number = target.number}

\* The status of the response and the rotation to store (stored only with
\* 200).
RotationResponse(recipe_id, data) ==
    LET parsed == py_int(data.rotation)
    IN  IF ~data.has_rotation THEN [status |-> 400, rotation |-> 0]
        ELSE IF ~parsed.ok THEN [status |-> 500, rotation |-> 0]
        ELSE IF ~RotationAllowed(parsed.n) THEN [status |-> 400, rotation |-> 0]
        ELSE IF recipe_id \notin ExistingRecipes
        THEN [status |-> 404, rotation |-> 0]
        ELSE IF TargetRows(recipe_id, Target(data)) = {}
        THEN [status |-> 404, rotation |-> 0]
        ELSE [status |-> 200, rotation |-> parsed.n]

UpdateRecipeRotation(recipe_id, data) ==
    \E resp \in {RotationResponse(recipe_id, data)} :
    \E rows \in {TargetRows(recipe_id, Target(data))} :
        /\ recipe_images' =
            IF resp.status = 200 /\ Target(data).kind = "page"
            THEN (recipe_images \ rows)
                    \cup {[row EXCEPT !.rotation = resp.rotation] : row \in rows}
            ELSE recipe_images
        /\ dish_images' =
            IF resp.status = 200 /\ Target(data).kind = "dish"
            THEN (dish_images \ rows)
                    \cup {[row EXCEPT !.rotation = resp.rotation] : row \in rows}
            ELSE dish_images
        /\ call' = [name |-> "update_recipe_rotation", recipe_id |-> recipe_id,
                    data |-> data, status |-> resp.status,
                    changed |-> (recipe_images' # recipe_images
                                    \/ dish_images' # dish_images)]
        /\ UNCHANGED <<tag_list, recipe_tags>>
        /\ UNCHANGED imagevars
        /\ UNCHANGED uploadvars

\* The rotations sent: the four allowed ones (180 as the string "180"),
\* 45, -90, 90.5, the string "abc" and null.
RotationValues ==
    {JsonInt(0), JsonInt(90), JsonInt(270), JsonString(<<49, 56, 48>>),
     JsonInt(45), JsonInt(-90), JsonNumber(905),
     JsonString(<<97, 98, 99>>), JsonNull}

RotationRequests ==
    {RotationRequest(TRUE, v, t[1], t[2], t[3]) :
        v \in RotationValues,
        t \in {<<"recipe", {}, {}>>, <<"page", {1}, {}>>, <<"page", {2}, {}>>,
               <<"dish", {}, {1}>>, <<"dish", {}, {2}>>, <<"page", {}, {}>>}}
    \cup {RotationRequest(FALSE, JsonNull, "recipe", {}, {}),
          RotationRequest(FALSE, JsonNull, "page", {1}, {})}

RequestRecipeIds == ExistingRecipes \cup {3}

InitRotation == EngineIdle /\ ServicesIdle

NextRotation ==
    \E recipe_id \in RequestRecipeIds, data \in RotationRequests :
        UpdateRecipeRotation(recipe_id, data)

SpecRotation == InitRotation /\ [][NextRotation]_vars

(***************************************************************************)
(* add_tag_to_recipe, remove_tag_from_recipe and get_all_tags_with_counts  *)
(* (services/recipe_service.py 286-398) on the tables RecipeTagList        *)
(* (tag_list) and RecipeTag (recipe_tags), database.py 135-166.            *)
(***************************************************************************)
MaxId == 4

TagNames == {"soup", "cake"}
TagListRow(id, tag_name) == [id |-> id, tag_name |-> tag_name]
RecipeTagRow(id, recipe_id, tag_id) ==
    [id |-> id, recipe_id |-> recipe_id, tag_id |-> tag_id]

\* The id the database gives a new row: one more than the largest id of
\* the table (integer primary key).
NextId(rows) ==
    IF rows = {} THEN 1 ELSE SetMax({row.id : row \in rows}) + 1

\* The query of lines 305-309.
TagsNamed(tags, tag_name) == {tag \in tags : tag.tag_name = tag_name}

\* The query of lines 318-323.
LinksOf(links, recipe_id, tag_id) ==
    {link \in links : link.recipe_id = recipe_id /\ link.tag_id = tag_id}

\* add_tag_to_recipe: the tables after the call and what it returns
\* (found = FALSE for None).
add_tag_to_recipe(tags, links, recipe_id, tag_name) ==
    LET none == [found |-> FALSE, id |-> 0, recipe_tag_id |-> 0]
        named == TagsNamed(tags, tag_name)
        tag == IF named = {} THEN TagListRow(NextId(tags), tag_name)
               ELSE CHOOSE t \in named : TRUE
        tags2 == tags \cup {tag}
        link == RecipeTagRow(NextId(links), recipe_id, tag.id)
    IN  IF recipe_id \notin ExistingRecipes
        THEN [tags |-> tags, links |-> links, result |-> none]
        ELSE IF LinksOf(links, recipe_id, tag.id) # {}
        THEN [tags |-> tags2, links |-> links, result |-> none]
        ELSE [tags |-> tags2, links |-> links \cup {link},
              result |-> [found |-> TRUE, id |-> tag.id,
                          recipe_tag_id |-> link.id]]

\* remove_tag_from_recipe: the links after the call and the returned flag.
remove_tag_from_recipe(links, recipe_id, recipe_tag_id) ==
    LET found == {link \in links : link.id = recipe_tag_id
                                   /\ link.recipe_id = recipe_id}
    IN  [links |-> links \ found, result |-> found # {}]

\* Variant of get_all_tags_with_counts: every tag of the list, without the
\* join.
all_tags_with_counts_outer(tags, links) ==
    {[id |-> tag.id, tag_name |-> tag.tag_name,
      recipe_count |-> Cardinality({link \in links : link.tag_id = tag.id})] :
        tag \in tags}

\* get_all_tags_with_counts: the tags joined with their links, grouped by
\* tag, with the number of joined rows (the order by name is left out).
get_all_tags_with_counts(tags, links) ==
    {[id |-> tag.id, tag_name |-> tag.tag_name,
      recipe_count |-> Cardinality({link \in links : link.tag_id = tag.id})] :
        tag \in {t \in tags : \E link \in links : link.tag_id = t.id}}

TagCall(name, recipe_id, tag_name, recipe_tag_id, result, listing) ==
    [name |-> name, recipe_id |-> recipe_id, tag_name |-> tag_name,
     recipe_tag_id |-> recipe_tag_id, result |-> result, listing |-> listing,
     tags_before |-> tag_list, links_before |-> recipe_tags]

AddTagToRecipe(recipe_id, tag_name) ==
    /\ NextId(recipe_tags) <= MaxId
    /\ \E out \in {add_tag_to_recipe(tag_list, recipe_tags, recipe_id,
                                     tag_name)} :
        /\ tag_list' = out.tags
        /\ recipe_tags' = out.links
        /\ call' = TagCall("add_tag_to_recipe", recipe_id, tag_name, 0,
                           out.result, {})
    /\ UNCHANGED <<recipe_images, dish_images>>
    /\ UNCHANGED imagevars
    /\ UNCHANGED uploadvars

RemoveTagFromRecipe(recipe_id, recipe_tag_id) ==
    /\ \E out \in {remove_tag_from_recipe(recipe_tags, recipe_id,
                                          recipe_tag_id)} :
        /\ recipe_tags' = out.links
        /\ call' = TagCall("remove_tag_from_recipe", recipe_id, "",
                           recipe_tag_id,
                           [found |-> out.result, id |-> 0,
                            recipe_tag_id |-> recipe_tag_id], {})
    /\ UNCHANGED <<recipe_images, dish_images, tag_list>>
    /\ UNCHANGED imagevars
    /\ UNCHANGED uploadvars

GetAllTagsWithCounts ==
    /\ call' = TagCall("get_all_tags_with_counts", 0, "", 0,
                       [found |-> TRUE, id |-> 0, recipe_tag_id |-> 0],
                       get_all_tags_with_counts(tag_list, recipe_tags))
    /\ UNCHANGED tables
    /\ UNCHANGED imagevars
    /\ UNCHANGED uploadvars

InitTags == EngineIdle /\ ServicesIdle

NextTags ==
    \/ \E recipe_id \in RequestRecipeIds, tag_name \in TagNames :
            AddTagToRecipe(recipe_id, tag_name)
    \/ \E recipe_id \in RequestRecipeIds, recipe_tag_id \in 1..MaxId :
            RemoveTagFromRecipe(recipe_id, recipe_tag_id)
    \/ GetAllTagsWithCounts

SpecTags == InitTags /\ [][NextTags]_vars

(***************************************************************************)
(* handle_upload_pdfs (api/handlers/recipes.py 29-160; web_gui.py 245-301  *)
(* has the same steps) for one file per request.  The requests are served  *)
(* by separate threads, each with its own session; a step of a request is  *)
(* one access to the database: the query for the hash (lines 69-73), the   *)
(* commit of the Recipe (107-109), the commit of its RecipeImage rows      *)
(* (112-136).                                                              *)
(***************************************************************************)
MaxRecipeId == 3

Requests == {1, 2}

\* The uploaded documents, named by their hash, and the page numbers of the
\* results process_pdf_images returns for them (none for "noimage").
Documents == {"a", "b", "noimage"}
ResultPages(sha) ==
    CASE sha = "a" -> {0}
      [] sha = "b" -> {1}
      [] OTHER -> {}

\* The Recipe rows holding a hash (the query of lines 69-73).
RecipesWithHash(rows, sha) ==
    {row \in rows : row.original_pdf_sha256 = sha}

UploadState(pc, file, known, recipe_id, status) ==
    [pc |-> pc, file |-> file, known |-> known, recipe_id |-> recipe_id,
     status |-> status]

UploadUnchanged ==
    /\ UNCHANGED <<call, dish_images, tag_list, recipe_tags>>
    /\ UNCHANGED imagevars

\* A request arrives with one PDF file (lines 60-66); known records whether
\* a Recipe with its hash is stored at that moment.
UploadStart(r, sha) ==
    /\ uploads[r].pc = "idle"
    /\ NextId(recipes) <= MaxRecipeId
    /\ uploads' = [uploads EXCEPT ![r] =
            UploadState("check", sha, RecipesWithHash(recipes, sha) # {},
                        0, "")]
    /\ UNCHANGED <<recipes, recipe_images>>
    /\ UploadUnchanged

\* Lines 69-97: the query for an existing Recipe with the hash, then the
\* processing of the PDF.
UploadCheck(r) ==
    /\ uploads[r].pc = "check"
    /\ \E file \in {uploads[r].file} :
       \E existing \in {RecipesWithHash(recipes, file)} :
        IF existing # {}
        THEN \E row \in existing :
                uploads' = [uploads EXCEPT ![r] =
                    UploadState("done", file, uploads[r].known, row.id,
                                "duplicate")]
        ELSE IF ResultPages(file) = {}
        THEN uploads' = [uploads EXCEPT ![r] =
                UploadState("done", file, uploads[r].known, 0, "error")]
        ELSE uploads' = [uploads EXCEPT ![r] =
                UploadState("add", file, uploads[r].known, 0, "")]
    /\ UNCHANGED <<recipes, recipe_images>>
    /\ UploadUnchanged

\* Lines 100-109: the Recipe is added and committed.
UploadAddRecipe(r) ==
    /\ uploads[r].pc = "add"
    /\ \E id \in {NextId(recipes)} :
        /\ recipes' = recipes \cup {RecipeRow(id, uploads[r].file)}
        /\ uploads' = [uploads EXCEPT ![r] =
                UploadState("images", uploads[r].file, uploads[r].known, id,
                            "")]
    /\ UNCHANGED recipe_images
    /\ UploadUnchanged

\* Lines 112-145: the RecipeImage rows are added and committed.  When that
\* raises (fails), line 148 rolls the session back: the rows not yet
\* committed are dropped and the file is reported with status error.
UploadStoreImages(r, fails) ==
    /\ uploads[r].pc = "images"
    /\ IF fails
       THEN /\ uploads' = [uploads EXCEPT ![r] =
                    UploadState("done", uploads[r].file, uploads[r].known,
                                uploads[r].recipe_id, "error")]
            /\ UNCHANGED recipe_images
       ELSE /\ recipe_images' = recipe_images \cup
                    {RecipeImageRow(uploads[r].recipe_id, page, 0) :
                        page \in ResultPages(uploads[r].file)}
            /\ uploads' = [uploads EXCEPT ![r] =
                    UploadState("done", uploads[r].file, uploads[r].known,
                                uploads[r].recipe_id, "success")]
    /\ UNCHANGED recipes
    /\ UploadUnchanged

\* Line 157: the response is sent; the thread may serve another request.
UploadReturn(r) ==
    /\ uploads[r].pc = "done"
    /\ uploads' = [uploads EXCEPT ![r] = NoUpload]
    /\ UNCHANGED <<recipes, recipe_images>>
    /\ UploadUnchanged

\* An empty database.
InitUpload ==
    /\ EngineIdle
    /\ call = NoCall
    /\ recipes = {}
    /\ recipe_images = {}
    /\ dish_images = {}
    /\ tag_list = {}
    /\ recipe_tags = {}
    /\ uploads = [r \in Requests |-> NoUpload]

NextUpload ==
    \/ \E r \in Requests, sha \in Documents : UploadStart(r, sha)
    \/ \E r \in Requests : UploadCheck(r)
    \/ \E r \in Requests : UploadAddRecipe(r)
    \/ \E r \in Requests, fails \in BOOLEAN : UploadStoreImages(r, fails)
    \/ \E r \in Requests : UploadReturn(r)

SpecUpload == InitUpload /\ [][NextUpload]_vars

(***************************************************************************)
(* What the claims speak of.                                               *)
(***************************************************************************)
Called == op.name \in {"white", "grey", "maingrey", "pipeline"}
HasReturned == Called /\ ~op.res.raised
InW == op.input[3] - op.input[1]
InH == op.input[4] - op.input[2]
Box == op.res.box
OutW == Box[3] - Box[1]
OutH == Box[4] - Box[2]
InputView == View(img, op.input)
Unchanged == Box = <<0, 0, InW, InH>>

\* The scanned axis of a grey pass: columns for left/right (and for main.py's
\* two-sided pass), rows for top/bottom.
ScansColumns == op.name = "maingrey" \/ op.side \in {"left", "right"}
InExtent == IF ScansColumns THEN InW ELSE InH
OutExtent == IF ScansColumns THEN OutW ELSE OutH
FromLowEdge == op.side \in {"left", "top"}

\* The sample positions of the scanned lines of the last grey pass, and the
\* number of them lying within tolerance of the margin colour on a line.
OrthoExtent == IF ScansColumns THEN InH ELSE InW
LineSamplePoints ==
    SamplePoints(scan_start_of(OrthoExtent), scan_end_of(OrthoExtent))
WithinTolerance(line) ==
    {j \in LineSamplePoints :
        ~ExceedsTolerance(LinePix(InputView, ScansColumns, line, j),
                          op.res.color, op.tolerance)}

\* C1: the crop rectangle applied by autocrop_white_border and by
\* autocrop_grey_border (any side, any parameters) lies inside the input
\* bounds: 0 <= left <= right <= width and 0 <= top <= bottom <= height.
C1_Containment ==
    (op.name \in {"white", "grey"} /\ ~op.res.raised) =>
        /\ 0 <= Box[1] /\ Box[1] <= Box[3] /\ Box[3] <= InW
        /\ 0 <= Box[2] /\ Box[2] <= Box[4] /\ Box[4] <= InH

\* A white crop that trimmed all four sides, its box touching no edge.
C1_Witness ==
    /\ op.name = "white"
    /\ 0 < Box[1] /\ Box[3] < InW
    /\ 0 < Box[2] /\ Box[4] < InH

\* C2: on an image of width >= 1 and height >= 1 no autocrop operation, nor
\* the white -> left -> right pipeline, returns a degenerate image: the
\* output has width >= 1 and height >= 1.
C2_NonDegenerate ==
    (HasReturned /\ InW >= 1 /\ InH >= 1) => (OutW >= 1 /\ OutH >= 1)

\* The pipeline returned an image narrower and lower than its input.
C2_Witness ==
    /\ op.name = "pipeline" /\ ~op.res.raised
    /\ 1 <= OutW /\ OutW < InW
    /\ 1 <= OutH /\ OutH < InH

\* C3: autocrop_white_border and autocrop_grey_border (each side) return
\* without raising on every image of non-zero width and height, small ones
\* included (height 20 or below for left/right, width 20 or below for
\* top/bottom), and a zero-sized image comes back with unchanged dimensions.
C3_Total ==
    (op.name \in {"white", "grey"}) =>
        /\ ~op.res.raised
        /\ (InW = 0 \/ InH = 0) => (OutW = InW /\ OutH = InH)

\* C4: the grey-margin pass is idempotent: applied again to its own output
\* with the same side and tolerance (margin colour detected anew), it
\* removes nothing further.
C4_Idempotent ==
    (op.name = "grey" /\ op.again /\ op.border_color = NoColor
        /\ ~op.res.raised) => Unchanged

\* C5: autocrop_white_border crops exactly to the padded bounding box of the
\* content: content is luminance strictly below the threshold; with no
\* content the image is unchanged; otherwise the crop is (max(0, minx-2),
\* max(0, miny-2), min(width, maxx+3), min(height, maxy+3)); a single
\* content pixel at (10,10) gives (8,8,13,13).
ColumnsWithContentOf(v, w, h, t) ==
    {x \in 0..(w - 1) : \E y \in 0..(h - 1) : Lum(VPix(v, x, y)) < t}
RowsWithContentOf(v, w, h, t) ==
    {y \in 0..(h - 1) : \E x \in 0..(w - 1) : Lum(VPix(v, x, y)) < t}
ColumnsWithContent == ColumnsWithContentOf(InputView, InW, InH, op.threshold)
RowsWithContent == RowsWithContentOf(InputView, InW, InH, op.threshold)
IsLeast(i, S) == i \in S /\ \A k \in S : i <= k
IsGreatest(i, S) == i \in S /\ \A k \in S : k <= i

C5_WhiteBoundingBox ==
    (op.name = "white") =>
        /\ ~op.res.raised
        /\ \E cols \in {ColumnsWithContent}, rows \in {RowsWithContent} :
            IF cols = {}
            THEN Unchanged
            ELSE \E minx \in {x \in cols : IsLeast(x, cols)},
                    maxx \in {x \in cols : IsGreatest(x, cols)},
                    miny \in {y \in rows : IsLeast(y, rows)},
                    maxy \in {y \in rows : IsGreatest(y, rows)} :
                /\ Box = <<Max(0, minx - 2), Max(0, miny - 2),
                           Min(InW, maxx + 3), Min(InH, maxy + 3)>>
                /\ (<<minx, miny, maxx, maxy>> = <<10, 10, 10, 10>>
                        /\ InW >= 13 /\ InH >= 13)
                    => Box = <<8, 8, 13, 13>>

\* The white pass at threshold 250 on a canvas whose only content pixel is
\* at (10,10) returned the box (8,8,13,13).
C5_Witness ==
    /\ op.name = "white" /\ op.threshold = 250
    /\ img.sx = 10 /\ img.sy = 10 /\ op.input = <<0, 0, img.w, img.h>>
    /\ ColumnsWithContent = {10}
    /\ RowsWithContent = {10}
    /\ Box = <<8, 8, 13, 13>>

\* The case of C6: a left pass on a whole picture whose left m columns have
\* one colour and whose other columns have one other colour, farther than
\* the tolerance from the first, with 20 <= m < scan limit.
MarginOf == img.m1
MarginCase ==
    /\ op.name = "grey" /\ op.side = "left"
    /\ op.input = <<0, 0, img.w, img.h>>
    /\ ~img.tr /\ ~img.fl /\ img.sx < 0
    /\ img.r1 = 0 /\ img.r2 >= img.h
    /\ (img.m2 >= img.w \/ img.c2 = img.c3)
    /\ DistSq(img.c1, img.c2) > op.tolerance * op.tolerance
    /\ 20 <= MarginOf /\ MarginOf < Min(InW \div 2, 1000)
Removed == Box[1]

FirstLineIsContent ==
    /\ op.res.found
    /\ op.res.line = IF FromLowEdge THEN 0 ELSE InExtent - 1

C7_NoMarginIdentity ==
    (op.name = "grey" /\ ~op.res.raised /\ FirstLineIsContent) => Unchanged

\* A pass from the high edge (right or bottom) met content on its first line.
C7_Witness ==
    /\ op.name = "grey" /\ ~op.res.raised /\ FirstLineIsContent
    /\ op.side \in {"right", "bottom"}
    /\ Cardinality(LineSamplePoints) >= 1
    /\ Unchanged

\* C8: a scanned line is margin if and only if at least 90% of its sampled
\* pixels are within tolerance of the margin colour, so that a line with one
\* out-of-tolerance sample among 30 does not stop the scan: the line a scan
\* stops at has fewer than 90% of its samples within tolerance.
C8_RatioRule ==
    (op.name = "grey" /\ ~op.res.raised /\ op.res.found) =>
        10 * Cardinality(WithinTolerance(op.res.line))
            < 9 * Cardinality(LineSamplePoints)

C10_DegeneracyGuard ==
    (op.name \in {"grey", "maingrey"} /\ ~op.res.raised) =>
        (OutExtent = InExtent \/ 10 * OutExtent >= InExtent)

\* main.py's two-sided pass removed columns, and kept at least 10%.
C10_Witness ==
    /\ op.name = "maingrey" /\ ~op.res.raised
    /\ OutExtent < InExtent
    /\ 10 * OutExtent >= InExtent

\* C11: one call of autocrop_grey_border moves only the scanned edge: left
\* leaves top = 0, right = width, bottom = height; right leaves left = 0,
\* top = 0, bottom = height; top leaves left = 0, right = width, bottom =
\* height; bottom leaves left = 0, top = 0, right = width.
C11_OnlyScannedEdge ==
    (op.name = "grey" /\ ~op.res.raised) =>
        /\ op.side = "left" => (Box[2] = 0 /\ Box[3] = InW /\ Box[4] = InH)
        /\ op.side = "right" => (Box[1] = 0 /\ Box[2] = 0 /\ Box[4] = InH)
        /\ op.side = "top" => (Box[1] = 0 /\ Box[3] = InW /\ Box[4] = InH)
        /\ op.side = "bottom" => (Box[1] = 0 /\ Box[2] = 0 /\ Box[3] = InW)

\* A bottom pass that removed rows and left the three other edges in place.
C11_Witness ==
    /\ op.name = "grey" /\ ~op.res.raised /\ op.side = "bottom"
    /\ Box[4] < InH
    /\ Box[1] = 0 /\ Box[2] = 0 /\ Box[3] = InW

\* The stages of the last pipeline run.
StageNames == <<"white", "left", "right">>
StageView(i) == View(img, op.stages[i].in)
EdgeColor(i) ==
    IF op.stages[i].name = "left" THEN left_margin_color(StageView(i), NoColor)
    ELSE right_margin_color(StageView(i), NoColor)

\* C12: the pipeline runs white bounding box, then left grey margin, then
\* right grey margin; each stage is given the image the stage before it
\* returned, and each grey stage takes its margin colour from the edge of
\* the image it is given, not from the original.
C12_PipelineOrder ==
    (op.name = "pipeline") =>
        /\ Len(op.stages) \in 2..3
        /\ \A i \in 1..Len(op.stages) : op.stages[i].name = StageNames[i]
        /\ op.stages[1].in = op.input
        /\ \A i \in 2..Len(op.stages) :
            /\ op.stages[i].in = op.stages[i - 1].out
            /\ op.stages[i].color = EdgeColor(i)
        /\ ~op.res.raised =>
            (Len(op.stages) = 3 /\ Returned = op.stages[3].out)

\* A run in which the white stage and the left stage both cropped, and the
\* left margin colour differs from the one the original image would give.
C12_Witness ==
    /\ op.name = "pipeline" /\ ~op.res.raised
    /\ op.stages[1].out # op.stages[1].in
    /\ op.stages[2].out # op.stages[2].in
    /\ op.stages[2].out[1] > op.stages[2].in[1]
    /\ op.stages[2].color # left_margin_color(InputView, NoColor)

\* The first content column found by the left stage, in picture coordinates.
LeftContentColumn == op.stages[2].in[1] + op.stages[2].line

\* C13: in a pipeline run the right pass does not cross the boundary found
\* by the left pass: the final right boundary is strictly greater than the
\* first content column the left pass identified, so that column is in the
\* output, on narrow images too.
C13_RightKeepsLeftContent ==
    (op.name = "pipeline" /\ ~op.res.raised /\ op.stages[2].found) =>
        /\ op.stages[3].out[3] > LeftContentColumn
        /\ op.stages[3].out[1] <= LeftContentColumn

\* Both grey stages found content and the right stage removed columns.
C13_Witness ==
    /\ op.name = "pipeline" /\ ~op.res.raised
    /\ op.stages[2].found /\ op.stages[3].found
    /\ op.stages[3].out[3] < op.stages[3].in[3]
    /\ op.stages[3].out[3] > LeftContentColumn

\* chars equals the lower-case literal up to the case of its letters.
SameLetters(chars, literal) ==
    /\ Len(chars) = Len(literal)
    /\ \A i \in 1..Len(chars) :
        \/ chars[i] = literal[i]
        \/ (chars[i] \in 65..90 /\ chars[i] + 32 = literal[i])

\* C14: autocrop_grey_border with a side that is none of left, right, top,
\* bottom, compared without regard to case, returns its input unchanged and
\* does not raise (and a side that is one of them in any case is taken as
\* that side).
C14_InvalidSide ==
    (op.name = "grey") =>
        IF \E n \in Sides : SameLetters(op.sides, Spelling(n))
        THEN SameLetters(op.sides, Spelling(op.side))
        ELSE op.side = "invalid" /\ ~op.res.raised /\ Unchanged

\* The side "both" on a 40x20 image, on which left and right raise.
C14_Witness ==
    /\ op.name = "grey" /\ op.sides = <<98, 111, 116, 104>>
    /\ InW = 40 /\ InH = 20
    /\ ~op.res.raised /\ Unchanged

\* C15: with a border_color other than None the margin scan measures each
\* pixel against that border_color; the colour is detected from the image
\* edge only when border_color is None.
C15_GivenColorUsed ==
    (op.name \in {"grey", "remover"} /\ op.side # "invalid"
        /\ ~op.res.raised /\ op.border_color # NoColor) =>
        op.res.color = op.border_color

\* The case of C17: a picture with a uniform margin of the same colour on
\* its left and on its right, each wider than the padding and narrower than
\* the scan limit, around content farther than tolerance from it.
BothMarginsCase ==
    /\ op.name = "remover"
    /\ op.input = <<0, 0, img.w, img.h>>
    /\ ~img.tr /\ img.sx < 0 /\ img.r1 = 0 /\ img.r2 >= img.h
    /\ img.c1 = img.c3
    /\ DistSq(img.c1, img.c2) > op.tolerance * op.tolerance
    /\ img.m1 > 2 /\ 2 * img.m1 < img.w
    /\ img.w - img.m2 > 2 /\ 2 * (img.w - img.m2) < img.w
    /\ img.h >= 21

\* C17: grey_border_remover removes the left and the right grey margin of
\* the image (full height kept): an image with a uniform grey margin on
\* both sides comes out with both margins cropped.
C17_BothMarginsRemoved ==
    (BothMarginsCase /\ ~op.res.raised) =>
        /\ Box[1] > 0 /\ Box[3] < InW
        /\ Box[2] = 0 /\ Box[4] = InH

\* C16: the colour distance is symmetric and zero on equal colours (on the
\* squared distance), and the tolerance test gives the same verdict with
\* its two colours swapped.
C16_DistanceSymmetric ==
    (call.name = "color_distance") =>
        /\ call.ab = call.ba
        /\ call.aa = 0
        /\ call.a = call.b => call.ab = 0
        /\ call.exceeds_ab = call.exceeds_ba

\* Two colours that differ in the blue channel only, farther apart than the
\* tolerance in both orders.
C16_Witness ==
    /\ call.name = "color_distance"
    /\ call.a = <<100, 100, 0>> /\ call.b = <<100, 100, 255>>
    /\ call.tolerance = 60
    /\ call.ab = 65025 /\ call.ba = 65025
    /\ call.exceeds_ab /\ call.exceeds_ba

\* The pages (numbered from 0) that hold an image which opens and which the
\* three crops process.
HasProcessableImage(page) ==
    \E k \in 1..Len(page) : Opens(page[k]) /\ ~Processed(page[k]).raised
ProcessablePages ==
    {i - 1 : i \in {j \in 1..Len(call.pages) :
                        HasProcessableImage(call.pages[j])}}

\* C18: process_pdf_images returns one result for every page of the PDF
\* that holds an extractable, processable image and none for the other
\* pages, in page order: n such pages give n results.
C18_OneResultPerPage ==
    (call.name = "process_pdf_images") =>
        /\ Len(call.results) = Cardinality(ProcessablePages)
        /\ {call.results[i].page_num : i \in 1..Len(call.results)}
                = ProcessablePages
        /\ \A i \in 1..(Len(call.results) - 1) :
                call.results[i].page_num < call.results[i + 1].page_num

\* The request names one of 0, 90, 180, 270 (as a number or in digits).
NamesAllowedRotation(value) ==
    \/ value.t = "number" /\ value.tenths \in {0, 900, 1800, 2700}
    \/ value.t = "string"
        /\ value.chars \in {<<48>>, <<57, 48>>, <<49, 56, 48>>, <<50, 55, 48>>}
RotationToReject ==
    ~call.data.has_rotation \/ ~NamesAllowedRotation(call.data.rotation)
StoredRotations ==
    {row.rotation : row \in recipe_images} \cup
        {row.rotation : row \in dish_images}

\* C19: after any sequence of rotation requests every stored rotation of a
\* recipe image or dish image is one of 0, 90, 180, 270; a request without
\* rotation or with a rotation outside that set gets a 400 response and
\* changes no stored rotation; a request for a missing recipe or image
\* gets 404 and changes nothing.
C19_RotationRequests ==
    /\ StoredRotations \subseteq {0, 90, 180, 270}
    /\ (call.name = "update_recipe_rotation") =>
        /\ RotationToReject => (call.status = 400 /\ ~call.changed)
        /\ (~RotationToReject
                /\ (call.recipe_id \notin ExistingRecipes
                        \/ call.status = 404)) =>
            (call.status = 404 /\ ~call.changed)

\* The links of a tag, and whether the tag named in the last call was
\* assigned to its recipe before the call.
LinksToTag(tag) == {link \in recipe_tags : link.tag_id = tag.id}
WasAssigned ==
    \E tag \in call.tags_before, link \in call.links_before :
        /\ tag.tag_name = call.tag_name
        /\ link.tag_id = tag.id /\ link.recipe_id = call.recipe_id

\* C20: after any sequence of add_tag_to_recipe and remove_tag_from_recipe
\* calls no recipe is linked twice to one tag and no two tags have the same
\* name; add_tag_to_recipe returns None and creates no link when the recipe
\* does not exist or the tag is already assigned (and otherwise creates
\* the one link); get_all_tags_with_counts lists exactly the tags that
\* have at least one link, each with the number of its links.
C20_TagLinks ==
    /\ \A l1, l2 \in recipe_tags :
        (l1.recipe_id = l2.recipe_id /\ l1.tag_id = l2.tag_id) => l1 = l2
    /\ \A t1, t2 \in tag_list : t1.tag_name = t2.tag_name => t1 = t2
    /\ (call.name = "add_tag_to_recipe") =>
        IF call.recipe_id \notin ExistingRecipes \/ WasAssigned
        THEN ~call.result.found /\ recipe_tags = call.links_before
        ELSE /\ call.result.found
             /\ \E link \in recipe_tags \ call.links_before :
                 /\ recipe_tags = call.links_before \cup {link}
                 /\ link.recipe_id = call.recipe_id
                 /\ link.id = call.result.recipe_tag_id
                 /\ \E tag \in tag_list :
                     tag.id = link.tag_id /\ tag.tag_name = call.tag_name
    /\ (call.name = "get_all_tags_with_counts") =>
        /\ \A tag \in tag_list :
            LinksToTag(tag) # {} <=>
                [id |-> tag.id, tag_name |-> tag.tag_name,
                 recipe_count |-> Cardinality(LinksToTag(tag))]
                    \in call.listing
        /\ \A entry \in call.listing :
            \E tag \in tag_list :
                /\ tag.id = entry.id /\ tag.tag_name = entry.tag_name
                /\ entry.recipe_count = Cardinality(LinksToTag(tag))
                /\ entry.recipe_count >= 1

\* A listing taken when one tag has two links and the other tag has lost
\* its last link: only the first is listed, with count 2.
C20_Witness ==
    /\ call.name = "get_all_tags_with_counts"
    /\ Cardinality(tag_list) = 2
    /\ \E tag \in tag_list : LinksToTag(tag) = {}
    /\ \E entry \in call.listing :
        call.listing = {entry} /\ entry.recipe_count = 2

\* The number of lines the scan of the last grey pass examined: up to and
\* including the first content line, or the whole scan when none was found.
LinesExamined ==
    IF ~op.res.found THEN op.res.limit
    ELSE IF FromLowEdge THEN op.res.line + 1
    ELSE InExtent - op.res.line

\* C21: for each of the four sides the grey-margin scan examines at most
\* min(floor(0.5 * extent), 1000) lines from the edge, extent being the
\* width for left/right and the height for top/bottom; the right and bottom
\* scans obey the same 1000-line cap as the left and top scans.
C21_ScanCapAllSides ==
    (op.name = "grey" /\ ~op.res.raised /\ op.side \in Sides) =>
        LinesExamined <= Min(HalfOf(InExtent), ScanCap)

\* The number of sample points on one scanned line, and the number of
\* positions the colour sampler visits on one line of the edge band, in the
\* last grey pass.
LineSampleCount == Cardinality(LineSamplePoints)
ColorSamplesPerLine ==
    RangeLen(scan_start_of(OrthoExtent), scan_end_of(OrthoExtent),
             ColorStep(scan_end_of(OrthoExtent) - scan_start_of(OrthoExtent)))

\* C22: sampling is bounded for every image size: each scanned line is
\* tested on at most 30 sample points, and the margin-colour estimate uses
\* at most 20 sample positions along the orthogonal axis per line of the
\* edge band, whatever the length of the usable range.
C22_SamplingBounded ==
    (op.name = "grey" /\ ~op.res.raised /\ op.side \in Sides) =>
        /\ LineSampleCount <= LineSamples
        /\ ColorSamplesPerLine <= ColorSamples

\* The positions along the orthogonal axis at which the colour sampler of
\* the last grey pass reads the lines of the edge band.
ColorSamplePositions ==
    PyRange(scan_start_of(OrthoExtent), scan_end_of(OrthoExtent),
            ColorStep(scan_end_of(OrthoExtent) - scan_start_of(OrthoExtent)))

\* E = max(10, floor(extent / 20)) of the orthogonal extent.
ExclusionBand == IF OrthoExtent \div 20 > 10 THEN OrthoExtent \div 20 ELSE 10

\* C23: no pixel read by the margin-colour sampler or by the line classifier
\* lies inside the exclusion band: every sampled position p on the
\* orthogonal axis (y for left/right, x for top/bottom) satisfies
\* E <= p < extent - E with E = max(10, floor(extent / 20)); the colour
\* sampler and the scanner use the same range.
C23_ExclusionBand ==
    (op.name = "grey" /\ ~op.res.raised /\ op.side \in Sides) =>
        /\ \A p \in ColorSamplePositions \cup LineSamplePoints :
            ExclusionBand <= p /\ p < OrthoExtent - ExclusionBand
        /\ (ColorSamplePositions = {}) <=> (LineSamplePoints = {})
        /\ ColorSamplePositions # {} =>
            /\ SetMin(ColorSamplePositions) = ExclusionBand
            /\ SetMin(LineSamplePoints) = ExclusionBand

\* A bottom pass that found content on a page 240 wide, where the excluded
\* band is 12 and the 31 sample points end next to it.
C23_Witness ==
    /\ op.name = "grey" /\ ~op.res.raised /\ op.side = "bottom"
    /\ op.res.found
    /\ ExclusionBand > 10
    /\ Cardinality(LineSamplePoints) > 1
    /\ SetMax(LineSamplePoints) >= OrthoExtent - ExclusionBand - 7
    /\ SetMin(ColorSamplePositions) = ExclusionBand

\* The edge band of the last grey pass: its first line and its number of
\* lines, the number of pixels the colour sampler read in it, and their
\* channel sums.
BandLines == Min(SampleBand, InExtent)
BandFirst == IF FromLowEdge THEN 0 ELSE Max(0, InExtent - BandLines)
SampledPixels == BandLines * ColorSamplesPerLine
SampledTotal ==
    SumSamples(InputView, ScansColumns, BandFirst,
               scan_start_of(OrthoExtent),
               ColorStep(scan_end_of(OrthoExtent) - scan_start_of(OrthoExtent)),
               ColorSamplesPerLine, 0, SampledPixels - 1)

\* total / count rounded to the nearest integer (halves upward).
RoundedMean(total, count) == (2 * total + count) \div (2 * count)

\* C24: the auto-detected margin colour is, per channel, the arithmetic mean
\* of the sampled pixels rounded to the nearest integer (a channel mean of
\* 50.5 or 50.9 gives 51, not 50), and each channel lies in 0..255.
C24_RoundedMean ==
    (op.name = "grey" /\ ~op.res.raised /\ op.side \in Sides
        /\ SampledPixels > 0) =>
        \A c \in 1..3 :
            /\ op.res.color[c] = RoundedMean(SampledTotal[c], SampledPixels)
            /\ op.res.color[c] \in 0..255

\* The scanned edge of the crop box of the last grey pass: the start of the
\* box for left/top, its end for right/bottom.
BoxStart == IF ScansColumns THEN Box[1] ELSE Box[2]
BoxEnd == IF ScansColumns THEN Box[3] ELSE Box[4]

\* C25: when the scan finds its first content line at position x, the
\* boundary is backed off by padding = 2 toward the scanned edge and clamped
\* to the image: the left/top crop starts at max(0, x - 2), the right/bottom
\* crop ends at min(extent, x + 1 + 2); the content line found is retained
\* in the output, and a content line within 2 of the edge yields no crop.
C25_PaddingBackoff ==
    (op.name = "grey" /\ ~op.res.raised /\ op.side \in Sides
        /\ op.res.found) =>
        /\ FromLowEdge => BoxStart = Max(0, op.res.line - 2)
        /\ ~FromLowEdge => BoxEnd = Min(InExtent, op.res.line + 1 + 2)
        /\ BoxStart <= op.res.line /\ op.res.line < BoxEnd
        /\ (FromLowEdge /\ op.res.line <= 2) => Unchanged
        /\ (~FromLowEdge /\ op.res.line >= InExtent - 3) => Unchanged

\* A right pass that found content more than 2 columns from the right edge
\* and cut 2 columns after it.
C25_Witness ==
    /\ op.name = "grey" /\ ~op.res.raised /\ op.side = "right"
    /\ op.res.found
    /\ Box[3] = op.res.line + 3
    /\ Box[3] < InW

\* The horizontally mirrored and the transposed picture, and the views of
\* them that show the mirrored and the transposed content of a view.
MirrorX(p) ==
    IF ~p.tr THEN [p EXCEPT !.fl = ~p.fl]
    ELSE [p EXCEPT !.r1 = p.w - p.r2, !.r2 = p.w - p.r1,
                   !.sy = IF p.sy < 0 THEN p.sy ELSE p.w - 1 - p.sy]
Transposed(p) == [p EXCEPT !.tr = ~p.tr, !.w = p.h, !.h = p.w]
MirrorView(v) == View(MirrorX(v.p), <<v.p.w - v.r, v.t, v.p.w - v.l, v.b>>)
TransposedView(v) == View(Transposed(v.p), <<v.t, v.l, v.b, v.r>>)

\* The number of lines a pass with the arguments of the last grey pass
\* removes from view v on the given side.
RemovedBy(v, side) ==
    LET res == autocrop_grey_border(v, op.border_color, op.tolerance,
                                    Spelling(side))
        out == View(v.p, Crop(v, res.box))
    IN  IF side \in {"left", "right"} THEN Width(v) - Width(out)
        ELSE Height(v) - Height(out)

\* C26: the four side scans are one algorithm under axis change: the right
\* pass removes as many columns as the left pass removes from the mirrored
\* image, the top pass as many rows as the left pass removes columns from
\* the transposed image, and the bottom pass as many as the right pass on
\* the transposed image, for every extent (also above 2000 pixels).
C26_AxisChange ==
    (op.name = "grey" /\ ~op.res.raised /\ op.side \in Sides) =>
        /\ op.side = "right" =>
            InW - OutW = RemovedBy(MirrorView(InputView), "left")
        /\ op.side = "top" =>
            InH - OutH = RemovedBy(TransposedView(InputView), "left")
        /\ op.side = "bottom" =>
            InH - OutH = RemovedBy(TransposedView(InputView), "right")

\* The rectangle left by the white stage of the last pipeline run.
AfterWhite == op.stages[1].out

\* C27: a single grey-margin pass never removes more than half of the
\* scanned dimension: for an input of extent w >= 1 on the scanned axis the
\* output extent is at least ceil(w / 2); hence the white -> left -> right
\* pipeline on a non-empty image keeps at least a quarter of the width left
\* by the white crop, and all of its height.
C27_AtMostHalfRemoved ==
    /\ (op.name = "grey" /\ ~op.res.raised /\ op.side \in Sides
            /\ InExtent >= 1) =>
        2 * OutExtent >= InExtent
    /\ (op.name = "pipeline" /\ ~op.res.raised /\ InW >= 1 /\ InH >= 1) =>
        /\ 4 * OutW >= AfterWhite[3] - AfterWhite[1]
        /\ OutH = AfterWhite[4] - AfterWhite[2]

\* A pipeline run whose left pass found content and which returned an image
\* narrower than the white crop left it, with all of its height.
C27_Witness ==
    /\ op.name = "pipeline" /\ ~op.res.raised
    /\ Len(op.stages) = 3
    /\ op.stages[2].found
    /\ OutW < AfterWhite[3] - AfterWhite[1]
    /\ OutH = AfterWhite[4] - AfterWhite[2]

\* C28: PDF uploads are de-duplicated by content hash: after any sequence
\* of upload requests, two concurrent requests with the same PDF included,
\* no two Recipe rows have the same original_pdf_sha256, and a re-upload of
\* a stored PDF reports status duplicate with the id of an existing recipe
\* that has this hash (and so adds no rows).
C28_HashesUnique ==
    /\ \A a, b \in recipes :
        a.original_pdf_sha256 = b.original_pdf_sha256 => a = b
    /\ \A r \in Requests :
        (uploads[r].pc = "done" /\ uploads[r].known) =>
            /\ uploads[r].status = "duplicate"
            /\ \E row \in RecipesWithHash(recipes, uploads[r].file) :
                row.id = uploads[r].recipe_id

\* C29: an upload is all-or-nothing per file: whenever no request is
\* between adding a Recipe and storing its images, each Recipe row has at
\* least one RecipeImage row; a file reported with status error has left
\* neither a Recipe nor any of its images.
C29_AllOrNothing ==
    /\ (\A r \in Requests : uploads[r].pc # "images") =>
        \A row \in recipes :
            \E image \in recipe_images : image.recipe_id = row.id
    /\ \A r \in Requests :
        (uploads[r].pc = "done" /\ uploads[r].status = "error") =>
            /\ \A row \in recipes : row.id # uploads[r].recipe_id
            /\ \A image \in recipe_images :
                image.recipe_id # uploads[r].recipe_id

====
